---------------------------- MODULE Spec2Model ----------------------------
(***************************************************************************)
(* Model of the MCP41xxx digital-potentiometer driver xdrv_100_mcp41x.ino  *)
(* (percentage variant, lines 1-551, ESP32 build).                         *)
(*                                                                         *)
(* Percentages are float in the source.  They are modelled in fixed        *)
(* point: one unit is 1/SubMicro of a millionth of a percent, so that the  *)
(* six decimals printed by "%f" are coarser than the values themselves.    *)
(* Each handler of the driver is one action; the procedures it calls are   *)
(* operators transforming a record of the driver's variables and of the    *)
(* hardware / host effects (I/O calls, rule engine, response buffer).      *)
(***************************************************************************)
EXTENDS Integers, Sequences, FiniteSets, TLC

\* ------------------------------ Configuration ------------------------------

MCP41_CMD_WRITE_WIPER == 17

MCP41_RULE_SLOT == 3

MCP41_SPI_MAX_VALUE == 255

MCP41_SPI_MIN_VALUE == 0

\* "%f" prints six decimals: millionths of a percent
FDecimalsScale == 1000000

\* model units per millionth of a percent (resolution of the modelled floats)
SubMicro == 5

\* at most this many pin roles are assigned in the host configuration
MaxRoles == 3

\* ConvSpec applies MCP41_ConvertToValue to -ConvMargin .. 100 + ConvMargin percent
ConvMargin == 20

Scale == SubMicro * FDecimalsScale

Percent(p) == p * Scale

\* ------------------------------ Host configuration -------------------------

\* the pin roles of the host the driver reads (role, bus); the data pins of
\* hardware bus 1 are read too but never assigned here
Roles ==
  { <<"SSPI_CS", 0>>, <<"SSPI_SCLK", 0>>, <<"SSPI_MOSI", 0>>, <<"SSPI_MISO", 0>>,
    <<"SPI_CS", 0>>, <<"SPI_CLK", 0>>, <<"SPI_MOSI", 0>>, <<"SPI_MISO", 0>>,
    <<"SPI_CS", 1>>, <<"SPI_CLK", 1>> }

\* the GPIO a role is wired to when it is assigned (one GPIO per role)
GpioOf(r) ==
  CASE r = <<"SSPI_CS", 0>>   -> 15
    [] r = <<"SSPI_SCLK", 0>> -> 14
    [] r = <<"SSPI_MOSI", 0>> -> 13
    [] r = <<"SSPI_MISO", 0>> -> 12
    [] r = <<"SPI_CS", 0>>    -> 5
    [] r = <<"SPI_CLK", 0>>   -> 18
    [] r = <<"SPI_MOSI", 0>>  -> 23
    [] r = <<"SPI_MISO", 0>>  -> 19
    [] r = <<"SPI_CS", 1>>    -> 4
    [] r = <<"SPI_CLK", 1>>   -> 25

Configs == { c \in SUBSET Roles : Cardinality(c) <= MaxRoles }

VARIABLES
  gpio_config,        \* host: the set of assigned pin roles (fixed for one boot)
  mcp41_cs_gpio, mcp41_cs_override, mcp41_spi_inited, mcp41_last_value,
  mcp41_raw_min, mcp41_raw_max, mcp41_use_sspi,
  mcp41_sspi_clk, mcp41_sspi_mosi, mcp41_sspi_miso,
  mcp41_spi_clk, mcp41_spi_mosi, mcp41_spi_miso, mcp41_spi_bus,
  io,                 \* hardware calls made by the last handler, in order
  wr,                 \* the MCP41_Write call of the last handler
  started,            \* the pins the transport was last started with
  rule,               \* host rule engine: slot MCP41_RULE_SLOT
  response,           \* host response buffer as written by the last handler
  last_ok,            \* value of the most recent set that succeeded
  XdrvMailbox,        \* the command of the last handler, if it was FUNC_COMMAND
  handled,            \* return value of Xdrv100
  phase,              \* boot sequence of the host
  conv, convPrev,     \* ConvSpec: the last two applications of MCP41_ConvertToValue
  sspi_data           \* ByteSpec: the byte of the last SSPI_TransferByte call, -1 before

drv_vars ==
  << mcp41_cs_gpio, mcp41_cs_override, mcp41_spi_inited, mcp41_last_value,
     mcp41_raw_min, mcp41_raw_max, mcp41_use_sspi,
     mcp41_sspi_clk, mcp41_sspi_mosi, mcp41_sspi_miso,
     mcp41_spi_clk, mcp41_spi_mosi, mcp41_spi_miso, mcp41_spi_bus >>

env_vars == << io, wr, started, rule, response, last_ok >>

vars == << gpio_config, drv_vars, env_vars, XdrvMailbox, handled, phase, conv, convPrev, sspi_data >>

\* host: PinUsed(role, bus)
PinUsed(name, bus) == <<name, bus>> \in gpio_config

\* host: Pin(role, bus), 99 when the role is not assigned
Pin(name, bus) == IF PinUsed(name, bus) THEN GpioOf(<<name, bus>>) ELSE 99

\* ------------------------------ Hardware / host effects --------------------

Ev(op, pin, val, args) == [op |-> op, pin |-> pin, val |-> val, args |-> args]

digitalWrite(d, pin, val) == [d EXCEPT !.io = Append(@, Ev("digitalWrite", pin, val, <<>>))]

pinMode(d, pin, mode) == [d EXCEPT !.io = Append(@, Ev("pinMode", pin, mode, <<>>))]

NoPins == [cs |-> -1, sspi |-> FALSE, clk |-> -1, mosi |-> -1, miso |-> -1, bus |-> 0]

NoWrite == [called |-> FALSE, ret |-> FALSE, percent |-> 0, io |-> <<>>]

NoRule == [installed |-> FALSE, enabled |-> FALSE, slot |-> 0, micro |-> 0]

NoResponse == [cmd |-> "", kind |-> "none", micro |-> 0, cs |-> -1, ov |-> -1, bus |-> ""]

\* the driver's variables and the effects of the running handler, as one record
Drv ==
  [ cs_gpio |-> mcp41_cs_gpio, cs_override |-> mcp41_cs_override,
    spi_inited |-> mcp41_spi_inited, last_value |-> mcp41_last_value,
    raw_min |-> mcp41_raw_min, raw_max |-> mcp41_raw_max,
    use_sspi |-> mcp41_use_sspi,
    sspi_clk |-> mcp41_sspi_clk, sspi_mosi |-> mcp41_sspi_mosi, sspi_miso |-> mcp41_sspi_miso,
    spi_clk |-> mcp41_spi_clk, spi_mosi |-> mcp41_spi_mosi, spi_miso |-> mcp41_spi_miso,
    spi_bus |-> mcp41_spi_bus,
    io |-> <<>>, wr |-> NoWrite, started |-> started, rule |-> rule,
    response |-> NoResponse, last_ok |-> last_ok, ret |-> FALSE ]

\* the pins a transport is started with
ResolvedPins(d) ==
  [ cs |-> d.cs_gpio, sspi |-> d.use_sspi,
    clk  |-> IF d.use_sspi THEN d.sspi_clk  ELSE d.spi_clk,
    mosi |-> IF d.use_sspi THEN d.sspi_mosi ELSE d.spi_mosi,
    miso |-> IF d.use_sspi THEN d.sspi_miso ELSE d.spi_miso,
    bus  |-> d.spi_bus ]

\* ------------------------------ Helpers GPIO/Bus ----------------------------

MCP41_Select(d, en) ==
  IF d.cs_gpio < 0 THEN d
  ELSE digitalWrite(d, d.cs_gpio, IF en THEN "LOW" ELSE "HIGH")

\* mutant of DetectCs: hardware-SPI chip-select tried before the software-SPI one
DetectCs_SpiFirst(d) ==
  IF d.cs_override >= 0 THEN
    [d EXCEPT !.cs_gpio = d.cs_override]
  ELSE IF PinUsed("SPI_CS", 0) THEN
    [d EXCEPT !.cs_gpio = Pin("SPI_CS", 0), !.use_sspi = FALSE, !.spi_bus = 0]
  ELSE IF PinUsed("SSPI_CS", 0) THEN
    [d EXCEPT !.cs_gpio = Pin("SSPI_CS", 0), !.use_sspi = TRUE]
  ELSE IF PinUsed("SPI_CS", 1) THEN
    [d EXCEPT !.cs_gpio = Pin("SPI_CS", 1), !.use_sspi = FALSE, !.spi_bus = 1]
  ELSE
    [d EXCEPT !.cs_gpio = -1]

\* lines 112-138: the chip-select priority chain
DetectCs(d) ==
  IF d.cs_override >= 0 THEN
    [d EXCEPT !.cs_gpio = d.cs_override]
  ELSE IF PinUsed("SSPI_CS", 0) THEN
    [d EXCEPT !.cs_gpio = Pin("SSPI_CS", 0), !.use_sspi = TRUE]
  ELSE IF PinUsed("SPI_CS", 0) THEN
    [d EXCEPT !.cs_gpio = Pin("SPI_CS", 0), !.use_sspi = FALSE, !.spi_bus = 0]
  ELSE IF PinUsed("SPI_CS", 1) THEN
    [d EXCEPT !.cs_gpio = Pin("SPI_CS", 1), !.use_sspi = FALSE, !.spi_bus = 1]
  ELSE
    [d EXCEPT !.cs_gpio = -1]

\* lines 142-158: the other pins of the retained bus
DetectBusPins(d) ==
  IF d.use_sspi THEN
    [d EXCEPT
      !.sspi_clk  = IF PinUsed("SSPI_SCLK", 0) THEN Pin("SSPI_SCLK", 0) ELSE @,
      !.sspi_mosi = IF PinUsed("SSPI_MOSI", 0) THEN Pin("SSPI_MOSI", 0) ELSE @,
      !.sspi_miso = IF PinUsed("SSPI_MISO", 0) THEN Pin("SSPI_MISO", 0) ELSE @]
  ELSE IF d.cs_gpio >= 0 THEN
    [d EXCEPT
      !.spi_clk  = IF PinUsed("SPI_CLK", d.spi_bus)  THEN Pin("SPI_CLK", d.spi_bus)  ELSE @,
      !.spi_mosi = IF PinUsed("SPI_MOSI", d.spi_bus) THEN Pin("SPI_MOSI", d.spi_bus) ELSE @,
      !.spi_miso = IF PinUsed("SPI_MISO", d.spi_bus) THEN Pin("SPI_MISO", d.spi_bus) ELSE @]
  ELSE d

MCP41_DetectPinsFromConfig(d) ==
  LET reset == [d EXCEPT !.use_sspi = FALSE,
                         !.sspi_clk = -1, !.sspi_mosi = -1, !.sspi_miso = -1,
                         !.spi_clk = -1, !.spi_mosi = -1, !.spi_miso = -1,
                         !.spi_bus = 0]
  IN DetectBusPins(DetectCs(reset))

\* lines 172-178: the new chip-select becomes an output, inactive
ConfigureCs(x) ==
  IF x.cs_gpio >= 0
    THEN digitalWrite(pinMode(x, x.cs_gpio, "OUTPUT"), x.cs_gpio, "HIGH")
    ELSE x

\* lines 170-179: r is the state after detection
ResolveChanged(prev_cs, prev_ss, r) ==
  IF prev_cs # r.cs_gpio \/ prev_ss # r.use_sspi
    THEN ConfigureCs([r EXCEPT !.spi_inited = FALSE])
    ELSE r

MCP41_ResolveBusAndPins(d) ==
  ResolveChanged(d.cs_gpio, d.use_sspi, MCP41_DetectPinsFromConfig(d))

\* ------------------------------ Init SPI / SoftSPI --------------------------

\* lines 194-198: pin setup of the bit-banged transport
SspiMisoInput(d) == IF d.sspi_miso >= 0 THEN pinMode(d, d.sspi_miso, "INPUT") ELSE d

StartSspi(d) ==
  SspiMisoInput(digitalWrite(pinMode(pinMode(d, d.sspi_clk, "OUTPUT"),
                                     d.sspi_mosi, "OUTPUT"),
                             d.sspi_clk, "LOW"))

\* lines 200-211: SPI.begin of the hardware transport (ESP32); -1 stands for the
\* board's default pin (SCK, MISO, MOSI)
StartSpi(d) ==
  IF d.spi_clk >= 0 \/ d.spi_miso >= 0 \/ d.spi_mosi >= 0
    THEN [d EXCEPT !.io = Append(@, Ev("SPI.begin", -1, "pins",
                                       <<d.spi_clk, d.spi_miso, d.spi_mosi, -1>>))]
    ELSE [d EXCEPT !.io = Append(@, Ev("SPI.begin", -1, "default", <<>>))]

\* line 217
MarkInited(s) == [s EXCEPT !.spi_inited = TRUE, !.started = ResolvedPins(s)]

\* lines 186-218: d is the state after MCP41_ResolveBusAndPins
InitSpiResolved(d) ==
  IF d.spi_inited \/ d.cs_gpio < 0 THEN d
  ELSE IF d.use_sspi /\ (d.sspi_clk < 0 \/ d.sspi_mosi < 0) THEN d
  ELSE MarkInited(IF d.use_sspi THEN StartSspi(d) ELSE StartSpi(d))

MCP41_InitSpiIfNeeded(d) == InitSpiResolved(MCP41_ResolveBusAndPins(d))

\* ------------------------------ SoftSPI (bit-bang) --------------------------

\* mutant of Bit: the bits are taken least significant first
Bit_LsbFirst(data, i) == (data \div (2 ^ (7 - i))) % 2

\* line 233: data & (1 << i)
Bit(data, i) == (data \div (2 ^ i)) % 2

RECURSIVE SSPI_Loop(_, _, _)
\* lines 232-238: the body of the loop, for i down to 0
SSPI_Loop(d, data, i) ==
  IF i < 0 THEN d
  ELSE SSPI_Loop(
         digitalWrite(
           digitalWrite(
             digitalWrite(d, d.sspi_mosi, IF Bit(data, i) # 0 THEN "HIGH" ELSE "LOW"),
             d.sspi_clk, "HIGH"),
           d.sspi_clk, "LOW"),
         data, i - 1)

SSPI_TransferByte(d, data) == SSPI_Loop(d, data, 7)

\* ------------------------------ Value mapping -------------------------------

\* (uint8_t)(percent * range / 100.0f): the product truncated towards zero,
\* computed without leaving 32 bits
ScaledTrunc(percent, range) ==
  LET a == percent \div Scale
      b == percent % Scale
  IN (a * range + (b * range) \div Scale) \div 100

\* mutant of MCP41_ConvertToValue: no upper clamp, the 8-bit result wraps
MCP41_ConvertToValue_NoUpperClamp(d, percent) ==
  IF percent < Percent(0) THEN d.raw_min
  ELSE ((ScaledTrunc(percent, d.raw_max - d.raw_min) % 256) + d.raw_min) % 256

MCP41_ConvertToValue(d, percent) ==
  IF percent < Percent(0) THEN d.raw_min
  ELSE IF percent > Percent(100) THEN d.raw_max
  ELSE ((ScaledTrunc(percent, d.raw_max - d.raw_min) % 256) + d.raw_min) % 256

\* "%f": the value rounded to six decimals, in millionths
FormatF(v) ==
  IF v >= 0 THEN (2 * v + SubMicro) \div (2 * SubMicro)
  ELSE -(((2 * (-v)) + SubMicro) \div (2 * SubMicro))

\* host: CharToFloat of a text with six decimals
CharToFloat(micro) == micro * SubMicro

\* ------------------------------ Ecriture MCP41 ------------------------------

MCP41_SPI_CLOCK == 10000000

SPI_beginTransaction(d) ==
  [d EXCEPT !.io = Append(@, Ev("SPI.beginTransaction", -1, "MSBFIRST,SPI_MODE0",
                                <<MCP41_SPI_CLOCK>>))]

SPI_transfer(d, data) == [d EXCEPT !.io = Append(@, Ev("SPI.transfer", -1, "", <<data>>))]

SPI_endTransaction(d) == [d EXCEPT !.io = Append(@, Ev("SPI.endTransaction", -1, "", <<>>))]

\* mutant of WriteFrame: chip-select released before the data byte
WriteFrame_EarlyDeselect(d, value) ==
  IF d.use_sspi THEN
    SSPI_TransferByte(
      MCP41_Select(SSPI_TransferByte(MCP41_Select(d, TRUE), MCP41_CMD_WRITE_WIPER), FALSE),
      value)
  ELSE
    SPI_endTransaction(
      SPI_transfer(
        MCP41_Select(
          SPI_transfer(MCP41_Select(SPI_beginTransaction(d), TRUE), MCP41_CMD_WRITE_WIPER),
          FALSE),
        value))

\* lines 287-307: the frame
WriteFrame(d, value) ==
  IF d.use_sspi THEN
    MCP41_Select(
      SSPI_TransferByte(
        SSPI_TransferByte(MCP41_Select(d, TRUE), MCP41_CMD_WRITE_WIPER),
        value),
      FALSE)
  ELSE
    SPI_endTransaction(
      MCP41_Select(
        SPI_transfer(
          SPI_transfer(MCP41_Select(SPI_beginTransaction(d), TRUE), MCP41_CMD_WRITE_WIPER),
          value),
        FALSE))

\* the result of MCP41_Write: d.ret is the value returned, d.wr records the call
Returned(d0, d, percent, ret) ==
  [d EXCEPT !.ret = ret,
            !.wr = [called |-> TRUE, ret |-> ret, percent |-> percent,
                    io |-> SubSeq(d.io, Len(d0.io) + 1, Len(d.io))]]

\* line 309
SetLastValue(d, percent) == [d EXCEPT !.last_value = percent, !.last_ok = percent]

\* lines 279-311: d is the state after the init attempt of line 278
WriteInited(d0, d, percent) ==
  IF ~d.spi_inited THEN Returned(d0, d, percent, FALSE)
  ELSE Returned(d0,
                SetLastValue(WriteFrame(d, MCP41_ConvertToValue(d, percent)), percent),
                percent, TRUE)

MCP41_Write(d, percent) ==
  IF d.cs_gpio < 0 THEN Returned(d, d, percent, FALSE)
  ELSE WriteInited(d, IF ~d.spi_inited THEN MCP41_InitSpiIfNeeded(d) ELSE d, percent)

\* ------------------------------ Persistance (Rule) --------------------------

\* host: ExecuteCommand("Rule<slot> on System#Boot do MCP41 <text> endon")
ExecuteRuleSet(d, slot, micro) ==
  [d EXCEPT !.rule = [@ EXCEPT !.installed = TRUE, !.slot = slot, !.micro = micro],
            !.io = Append(@, Ev("ExecuteCommand", slot, "Rule on System#Boot do MCP41", <<micro>>))]

\* host: ExecuteCommand("Rule<slot> 1")
ExecuteRuleEnable(d, slot) ==
  [d EXCEPT !.rule = [@ EXCEPT !.enabled = TRUE, !.slot = slot],
            !.io = Append(@, Ev("ExecuteCommand", slot, "Rule 1", <<>>))]

MCP41_UpdateBootRule(d, value) ==
  ExecuteRuleEnable(ExecuteRuleSet(d, MCP41_RULE_SLOT, FormatF(value)), MCP41_RULE_SLOT)

Response_P(d, cmd, kind, micro) ==
  [d EXCEPT !.response = [cmd |-> cmd, kind |-> kind, micro |-> micro,
                          cs |-> -1, ov |-> -1, bus |-> ""]]

\* mutant of Clamp: the upper limit is not applied
Clamp_NoUpper(val) == IF val < Percent(0) THEN Percent(0) ELSE val

\* lines 318-319
Clamp(val) ==
  IF val > Percent(100) THEN Percent(100)
  ELSE IF val < Percent(0) THEN Percent(0) ELSE val

\* lines 328-332: w is the state after MCP41_Write
TrySetWritten(w, val) ==
  IF w.ret THEN [MCP41_UpdateBootRule(w, val) EXCEPT !.ret = TRUE] ELSE w

\* lines 322-332: d is the state after MCP41_InitSpiIfNeeded
TrySetInited(d, val) ==
  IF d.cs_gpio < 0
    THEN [Response_P(d, "MCP41", "CS missing", 0) EXCEPT !.ret = FALSE]
    ELSE TrySetWritten(MCP41_Write(d, val), val)

MCP41_TrySetValue(d, val) == TrySetInited(MCP41_InitSpiIfNeeded(d), Clamp(val))

\* ------------------------------ Commandes console ---------------------------

BusName(d, unset) == IF d.use_sspi THEN "SSPI" ELSE IF d.cs_gpio >= 0 THEN "SPI" ELSE unset

\* lines 361-365: t is the state after MCP41_TrySetValue
SetReply(t) ==
  IF t.ret THEN Response_P(t, "MCP41", "value", FormatF(t.last_value))
  ELSE Response_P(t, "MCP41", "error", 0)

Cmnd_MCP41(d, mb) ==
  IF mb.data_len = 0 THEN
    [d EXCEPT !.response = [cmd |-> "MCP41", kind |-> "last", micro |-> FormatF(d.last_value),
                            cs |-> d.cs_gpio, ov |-> -1, bus |-> BusName(d, "unset")]]
  ELSE SetReply(MCP41_TrySetValue(d, mb.fl))

\* mutant of Cmnd_MCP41GET: the reply does not carry the stored value
Cmnd_MCP41GET_Zero(d, mb) == Response_P(d, "MCP41", "value", 0)

Cmnd_MCP41GET(d, mb) == Response_P(d, "MCP41", "value", FormatF(d.last_value))

CsReply(d) ==
  [d EXCEPT !.response = [cmd |-> "MCP41CS", kind |-> "cs", micro |-> 0,
                          cs |-> d.cs_gpio, ov |-> d.cs_override, bus |-> BusName(d, "SPI")]]

\* mutant of Cmnd_MCP41CS: -1 is rejected like any other negative pin
Cmnd_MCP41CS_RejectMinusOne(d, mb) ==
  IF mb.data_len = 0 THEN CsReply(d)
  ELSE IF mb.payload < 0 \/ mb.payload > 39 THEN Response_P(d, "MCP41CS", "invalid", 0)
  ELSE CsReply(MCP41_InitSpiIfNeeded(
                 [d EXCEPT !.cs_override = mb.payload, !.spi_inited = FALSE]))

\* mutant of Cmnd_MCP41CS: the forced re-init (mcp41_spi_inited = false) is missing
Cmnd_MCP41CS_NoForcedReinit(d, mb) ==
  IF mb.data_len = 0 THEN CsReply(d)
  ELSE IF mb.payload < -1 \/ mb.payload > 39 THEN Response_P(d, "MCP41CS", "invalid", 0)
  ELSE CsReply(MCP41_InitSpiIfNeeded([d EXCEPT !.cs_override = mb.payload]))

\* mutant of Cmnd_MCP41CS: the upper limit of the range is one pin too high
Cmnd_MCP41CS_Accept40(d, mb) ==
  IF mb.data_len = 0 THEN CsReply(d)
  ELSE IF mb.payload < -1 \/ mb.payload > 40 THEN Response_P(d, "MCP41CS", "invalid", 0)
  ELSE CsReply(MCP41_InitSpiIfNeeded(
                 [d EXCEPT !.cs_override = mb.payload, !.spi_inited = FALSE]))

Cmnd_MCP41CS(d, mb) ==
  IF mb.data_len = 0 THEN CsReply(d)
  ELSE IF mb.payload < -1 \/ mb.payload > 39 THEN Response_P(d, "MCP41CS", "invalid", 0)
  ELSE CsReply(MCP41_InitSpiIfNeeded(
                 [d EXCEPT !.cs_override = mb.payload, !.spi_inited = FALSE]))

\* lines 402-406: t is the state after MCP41_TrySetValue
AddReply(t) ==
  IF t.ret THEN Response_P(t, "MCP41ADD", "add", FormatF(t.last_value))
  ELSE Response_P(t, "MCP41ADD", "error", 0)

Cmnd_MCP41ADD(d, mb) ==
  IF mb.data_len = 0 THEN Response_P(d, "MCP41ADD", "Increment parameter missing", 0)
  ELSE AddReply(MCP41_TrySetValue(d, d.last_value + mb.fl))

\* ------------------------------ Table & dispatch ----------------------------

\* "|GET|CS", one character per element
kMCP41Commands == << "|", "G", "E", "T", "|", "C", "S" >>

CMND_MCP41 == 0

CMND_MCP41GET == 1

CMND_MCP41CS == 2

CMND_MCP41ADD == 3

RECURSIVE GetCommandCodeFrom(_, _, _, _)
\* host: GetCommandCode, scanning the '|'-separated haystack from position pos
\* with the entry read so far in word; the index of the first entry equal to
\* the needle, -1 when there is none
GetCommandCodeFrom(needle, haystack, pos, word) ==
  IF pos > Len(haystack) \/ haystack[pos] = "|" THEN
    IF word = needle THEN 0
    ELSE IF pos > Len(haystack) THEN -1
    ELSE LET rest == GetCommandCodeFrom(needle, haystack, pos + 1, <<>>)
         IN IF rest < 0 THEN -1 ELSE rest + 1
  ELSE GetCommandCodeFrom(needle, haystack, pos + 1, Append(word, haystack[pos]))

GetCommandCode(needle, haystack) == GetCommandCodeFrom(needle, haystack, 1, <<>>)

TopicMCP41 == << "M", "C", "P", "4", "1" >>

TopicMCP == << "M", "C", "P" >>

HasPrefix(topic, prefix) ==
  Len(topic) >= Len(prefix) /\ SubSeq(topic, 1, Len(prefix)) = prefix

\* lines 463-490: the switch on the command code
DispatchCode(d, mb, command_code) ==
  IF command_code = CMND_MCP41 THEN [Cmnd_MCP41(d, mb) EXCEPT !.ret = TRUE]
  ELSE IF command_code = CMND_MCP41GET THEN [Cmnd_MCP41GET(d, mb) EXCEPT !.ret = TRUE]
  ELSE IF command_code = CMND_MCP41CS THEN [Cmnd_MCP41CS(d, mb) EXCEPT !.ret = TRUE]
  ELSE IF command_code = CMND_MCP41ADD THEN [Cmnd_MCP41ADD(d, mb) EXCEPT !.ret = TRUE]
  ELSE [d EXCEPT !.ret = FALSE]

MCP41_CommandDispatcher(d, mb) ==
  IF HasPrefix(mb.topic, TopicMCP41) THEN
    DispatchCode(d, mb, GetCommandCode(SubSeq(mb.topic, Len(TopicMCP41) + 1, Len(mb.topic)),
                                       kMCP41Commands))
  ELSE IF mb.topic = TopicMCP /\ mb.index = 41 THEN
    [Cmnd_MCP41(d, mb) EXCEPT !.ret = TRUE]
  ELSE [d EXCEPT !.ret = FALSE]

\* ------------------------------ Inputs --------------------------------------

Mailbox(topic, index, data_len, fl, payload) ==
  [topic |-> topic, index |-> index, data_len |-> data_len, fl |-> fl, payload |-> payload]

NoMailbox == Mailbox(<<>>, 0, 0, 0, -99)

\* argument texts, each given by what CharToFloat and the payload parser make of it:
\* none, "-5", "1.9607844" (1.960784 plus two model units), "150"
ValueArgs ==
  { <<0, 0, -99>>, <<1, Percent(-5), -5>>,
    <<1, 1960784 * SubMicro + 2, 1>>, <<1, Percent(150), 150>> }

\* none, "-2", "-1", "4", "39", "40"
GpioArgs ==
  { <<0, 0, -99>>, <<1, Percent(-2), -2>>, <<1, Percent(-1), -1>>, <<1, Percent(4), 4>>,
    <<1, Percent(39), 39>>, <<1, Percent(40), 40>> }

\* none, "60", "-60"
AddArgs == { <<0, 0, -99>>, <<1, Percent(60), 60>>, <<1, Percent(-60), -60>> }

TopicGET == TopicMCP41 \o << "G", "E", "T" >>

TopicCS == TopicMCP41 \o << "C", "S" >>

TopicADD == TopicMCP41 \o << "A", "D", "D" >>

TopicOther == << "P", "O", "W", "E", "R" >>

\* the console splits trailing digits off the command: "MCP41" arrives as MCP + 41
Requests ==
  { Mailbox(TopicMCP, 41, a[1], a[2], a[3]) : a \in ValueArgs }
  \cup { Mailbox(TopicMCP41, 1, 1, Percent(150), 150) }
  \cup { Mailbox(TopicMCP, 1, 1, Percent(150), 150) }
  \cup { Mailbox(TopicGET, 1, a[1], a[2], a[3]) : a \in { <<0, 0, -99>> } }
  \cup { Mailbox(TopicCS, 1, a[1], a[2], a[3]) : a \in GpioArgs }
  \cup { Mailbox(TopicADD, 1, a[1], a[2], a[3]) : a \in AddArgs }
  \cup { Mailbox(TopicOther, 1, 0, 0, -99) }

\* ------------------------------ Entry point ---------------------------------

Commit(d) ==
  /\ mcp41_cs_gpio' = d.cs_gpio
  /\ mcp41_cs_override' = d.cs_override
  /\ mcp41_spi_inited' = d.spi_inited
  /\ mcp41_last_value' = d.last_value
  /\ mcp41_raw_min' = d.raw_min
  /\ mcp41_raw_max' = d.raw_max
  /\ mcp41_use_sspi' = d.use_sspi
  /\ mcp41_sspi_clk' = d.sspi_clk
  /\ mcp41_sspi_mosi' = d.sspi_mosi
  /\ mcp41_sspi_miso' = d.sspi_miso
  /\ mcp41_spi_clk' = d.spi_clk
  /\ mcp41_spi_mosi' = d.spi_mosi
  /\ mcp41_spi_miso' = d.spi_miso
  /\ mcp41_spi_bus' = d.spi_bus
  /\ io' = d.io
  /\ wr' = d.wr
  /\ started' = d.started
  /\ rule' = d.rule
  /\ response' = d.response
  /\ last_ok' = d.last_ok

\* handled = MCP41_CommandDispatcher()
CommitReturn(d) == Commit(d) /\ handled' = d.ret

NoConv == [in |-> 0, out |-> 0]

DriverInit ==
  /\ mcp41_cs_gpio = -1
  /\ mcp41_cs_override = -1
  /\ mcp41_spi_inited = FALSE
  /\ mcp41_last_value = 0
  /\ mcp41_raw_min = MCP41_SPI_MIN_VALUE
  /\ mcp41_raw_max = MCP41_SPI_MAX_VALUE
  /\ mcp41_use_sspi = FALSE
  /\ mcp41_sspi_clk = -1
  /\ mcp41_sspi_mosi = -1
  /\ mcp41_sspi_miso = -1
  /\ mcp41_spi_clk = -1
  /\ mcp41_spi_mosi = -1
  /\ mcp41_spi_miso = -1
  /\ mcp41_spi_bus = 0
  /\ io = <<>>
  /\ wr = NoWrite
  /\ started = NoPins
  /\ rule = NoRule
  /\ response = NoResponse
  /\ last_ok = 0
  /\ XdrvMailbox = NoMailbox
  /\ handled = FALSE

Init ==
  /\ gpio_config \in Configs
  /\ DriverInit
  /\ phase = "FUNC_PRE_INIT"
  /\ conv = NoConv
  /\ convPrev = NoConv
  /\ sspi_data = -1

\* Xdrv100(FUNC_PRE_INIT)
FuncPreInit ==
  /\ phase = "FUNC_PRE_INIT"
  /\ Commit(MCP41_ResolveBusAndPins(Drv))
  /\ handled' = FALSE
  /\ phase' = "FUNC_INIT"
  /\ UNCHANGED << gpio_config, XdrvMailbox, conv, convPrev, sspi_data >>

\* Xdrv100(FUNC_INIT)
FuncInit ==
  /\ phase = "FUNC_INIT"
  /\ Commit(MCP41_InitSpiIfNeeded(Drv))
  /\ handled' = FALSE
  /\ phase' = "FUNC_ACTIVE"
  /\ UNCHANGED << gpio_config, XdrvMailbox, conv, convPrev, sspi_data >>

\* Xdrv100(FUNC_ACTIVE)
FuncActive ==
  /\ phase \in { "FUNC_ACTIVE", "FUNC_COMMAND" }
  /\ Commit(Drv)
  /\ handled' = (mcp41_cs_gpio >= 0)
  /\ phase' = "FUNC_ACTIVE"
  /\ XdrvMailbox' = NoMailbox
  /\ UNCHANGED << gpio_config, conv, convPrev, sspi_data >>

\* Xdrv100(FUNC_COMMAND) with the mailbox the host filled in
FuncCommand ==
  /\ phase \in { "FUNC_ACTIVE", "FUNC_COMMAND" }
  /\ \E mb \in Requests :
       /\ CommitReturn(MCP41_CommandDispatcher(Drv, mb))
       /\ XdrvMailbox' = mb
  /\ phase' = "FUNC_COMMAND"
  /\ UNCHANGED << gpio_config, conv, convPrev, sspi_data >>

Next == FuncPreInit \/ FuncInit \/ FuncActive \/ FuncCommand

Spec == Init /\ [][Next]_vars

\* ------------------------------ Value mapper alone --------------------------

ConvInputs == { Percent(p) : p \in (0 - ConvMargin) .. (100 + ConvMargin) }

ConvInit ==
  /\ gpio_config = {}
  /\ DriverInit
  /\ phase = "convert"
  /\ conv \in { [in |-> p, out |-> MCP41_ConvertToValue(Drv, p)] : p \in ConvInputs }
  /\ convPrev = conv
  /\ sspi_data = -1

ApplyConvert ==
  /\ phase = "convert"
  /\ \E p \in ConvInputs :
       conv' = [in |-> p, out |-> MCP41_ConvertToValue(Drv, p)]
  /\ convPrev' = conv
  /\ UNCHANGED << gpio_config, drv_vars, env_vars, XdrvMailbox, handled, phase, sspi_data >>

ConvNext == ApplyConvert

ConvSpec == ConvInit /\ [][ConvNext]_vars

\* ------------------------------ Bit-banged byte alone ------------------------

\* pin configurations that select the bit-banged bus with clock and data-out
SspiConfigs ==
  { c \in SUBSET Roles :
      /\ { <<"SSPI_CS", 0>>, <<"SSPI_SCLK", 0>>, <<"SSPI_MOSI", 0>> } \subseteq c
      /\ c \subseteq { <<"SSPI_CS", 0>>, <<"SSPI_SCLK", 0>>, <<"SSPI_MOSI", 0>>,
                        <<"SSPI_MISO", 0>> } }

ByteInit ==
  /\ gpio_config \in SspiConfigs
  /\ DriverInit
  /\ phase = "FUNC_PRE_INIT"
  /\ conv = NoConv
  /\ convPrev = NoConv
  /\ sspi_data = -1

\* one call SSPI_TransferByte(data) on the started bit-banged bus (MCP41_Write
\* calls it only past lines 278-279 and 287)
TransferByte ==
  /\ phase = "FUNC_ACTIVE"
  /\ mcp41_spi_inited /\ mcp41_use_sspi
  /\ \E data \in 0 .. 255 :
       /\ Commit(SSPI_TransferByte(Drv, data))
       /\ sspi_data' = data
  /\ UNCHANGED << gpio_config, XdrvMailbox, handled, phase, conv, convPrev >>

ByteNext == FuncPreInit \/ FuncInit \/ TransferByte

ByteSpec == ByteInit /\ [][ByteNext]_vars

\* ------------------------------ Properties: vocabulary ----------------------

InCommand == phase = "FUNC_COMMAND"

\* the last handler was the command MCP41 (either way the host presents it)
IsMCP41 ==
  /\ InCommand
  /\ \/ XdrvMailbox.topic = TopicMCP /\ XdrvMailbox.index = 41
     \/ XdrvMailbox.topic = TopicMCP41

IsSet == IsMCP41 /\ XdrvMailbox.data_len > 0

IsCsChange ==
  /\ InCommand /\ XdrvMailbox.topic = TopicCS /\ XdrvMailbox.data_len > 0
  /\ XdrvMailbox.payload >= -1 /\ XdrvMailbox.payload <= 39

CurPins == ResolvedPins(Drv)

\* how many times seq starts a transport: SPI.begin, or the pin setup of the
\* bit-banged bus (its clock configured as an output and driven low)
StartCount(seq, clk) ==
  Cardinality({ i \in 1 .. Len(seq) : seq[i].op = "SPI.begin" })
  + Cardinality({ i \in 2 .. Len(seq) :
                    /\ seq[i].op = "digitalWrite" /\ seq[i].val = "LOW" /\ seq[i].pin = clk
                    /\ seq[i - 1].op = "pinMode" })

RECURSIVE SampleBits(_, _, _, _, _, _)
\* the data-out levels at the rising clock edges of seq[i..], MSB first
SampleBits(seq, i, clk, mosi, clkLevel, mosiLevel) ==
  IF i > Len(seq) THEN <<>>
  ELSE LET e == seq[i]
       IN IF e.op = "digitalWrite" /\ e.pin = mosi
            THEN SampleBits(seq, i + 1, clk, mosi, clkLevel, IF e.val = "HIGH" THEN 1 ELSE 0)
          ELSE IF e.op = "digitalWrite" /\ e.pin = clk /\ e.val = "HIGH" /\ clkLevel = 0
            THEN <<mosiLevel>> \o SampleBits(seq, i + 1, clk, mosi, 1, mosiLevel)
          ELSE IF e.op = "digitalWrite" /\ e.pin = clk
            THEN SampleBits(seq, i + 1, clk, mosi, IF e.val = "HIGH" THEN 1 ELSE 0, mosiLevel)
          ELSE SampleBits(seq, i + 1, clk, mosi, clkLevel, mosiLevel)

RECURSIVE BitsValue(_)
BitsValue(bits) ==
  IF bits = <<>> THEN 0 ELSE 2 * BitsValue(SubSeq(bits, 1, Len(bits) - 1)) + bits[Len(bits)]

\* the bytes a sequence of hardware calls puts on the bus
BusBytes(seq) ==
  IF mcp41_use_sspi THEN
    LET bits == SampleBits(seq, 1, mcp41_sspi_clk, mcp41_sspi_mosi, 0, 0)
    IN IF Len(bits) % 8 # 0 THEN << -1 >>
       ELSE [k \in 1 .. (Len(bits) \div 8) |-> BitsValue(SubSeq(bits, 8 * k - 7, 8 * k))]
  ELSE LET idx == { i \in 1 .. Len(seq) : seq[i].op = "SPI.transfer" }
           nth(k) == CHOOSE i \in idx : Cardinality({ j \in idx : j <= i }) = k
       IN [k \in 1 .. Cardinality(idx) |-> seq[nth(k)].args[1]]

CsWrite(e, val) == e.op = "digitalWrite" /\ e.pin = mcp41_cs_gpio /\ e.val = val

TouchesBus(e) ==
  e.op \in { "SPI.transfer", "SPI.beginTransaction", "SPI.endTransaction", "digitalWrite" }

\* seq is one frame: CS low, the two bytes, CS high, nothing else on chip-select
IsFrame(seq, value) ==
  /\ Len(seq) >= 2
  /\ CsWrite(seq[1], "LOW")
  /\ CsWrite(seq[Len(seq)], "HIGH")
  /\ \A i \in 2 .. (Len(seq) - 1) : seq[i].pin # mcp41_cs_gpio
  /\ \A i \in 1 .. Len(seq) : seq[i].op \in { "digitalWrite", "SPI.transfer" }
  /\ BusBytes(seq) = << MCP41_CMD_WRITE_WIPER, value >>

\* ------------------------------ C1 ------------------------------------------

ExpectedCs ==
  IF mcp41_cs_override >= 0 THEN mcp41_cs_override
  ELSE IF <<"SSPI_CS", 0>> \in gpio_config THEN GpioOf(<<"SSPI_CS", 0>>)
  ELSE IF <<"SPI_CS", 0>> \in gpio_config THEN GpioOf(<<"SPI_CS", 0>>)
  ELSE IF <<"SPI_CS", 1>> \in gpio_config THEN GpioOf(<<"SPI_CS", 1>>)
  ELSE -1

C2_WriteFrame ==
  wr.called =>
    IF wr.ret THEN
      LET value == MCP41_ConvertToValue(Drv, wr.percent)
      IN IF mcp41_use_sspi THEN IsFrame(wr.io, value)
         ELSE /\ Len(wr.io) = 6
              /\ wr.io[1].op = "SPI.beginTransaction"
              /\ wr.io[6].op = "SPI.endTransaction"
              /\ IsFrame(SubSeq(wr.io, 2, 5), value)
    ELSE \A i \in 1 .. Len(wr.io) : ~TouchesBus(wr.io[i])

\* C2 witness: a bit-banged write of 1.9607844 % went out as code 5.
C2_Witness ==
  /\ wr.called /\ wr.ret /\ mcp41_use_sspi
  /\ wr.percent = 1960784 * SubMicro + 2
  /\ BusBytes(wr.io) = << MCP41_CMD_WRITE_WIPER, 5 >>

\* ------------------------------ C3 ------------------------------------------

\* C3: the transport is started only while mcp41_spi_inited is false (a handler
\* that finds it true, and neither changes the resolved pins nor is a MCP41CS
\* change, starts nothing), and whenever it is marked started it was started
\* with the pins now resolved (chip-select, bus mode, clock, data pins, bus), so
\* every byte goes out on a transport started for the current pins.
C3_LazyRestart ==
  /\ [](mcp41_spi_inited => started = CurPins)
  /\ [](wr.ret => mcp41_spi_inited)
  /\ [][ (StartCount(io', mcp41_sspi_clk') > 0) =>
           (~mcp41_spi_inited \/ CurPins' # CurPins \/ IsCsChange') ]_vars
  /\ [][ (~mcp41_spi_inited /\ mcp41_spi_inited') => StartCount(io', mcp41_sspi_clk') = 1 ]_vars

\* C3 witness: MCP41CS 4 selected the pin that is also the configured bus-1
\* chip-select: chip-select and bus mode are as before, bus and clock differ,
\* and the transport was started again for them.
C3_Witness ==
  /\ IsCsChange /\ XdrvMailbox.payload = GpioOf(<<"SPI_CS", 1>>)
  /\ gpio_config = { <<"SPI_CS", 1>>, <<"SPI_CLK", 1>> }
  /\ mcp41_spi_inited
  /\ started.cs = GpioOf(<<"SPI_CS", 1>>) /\ started.bus = 0 /\ started.clk = -1
  /\ StartCount(io, mcp41_sspi_clk) = 1

\* ------------------------------ C4 ------------------------------------------

\* the value the boot rule hands back to MCP41 when it is replayed
ReplayedValue == CharToFloat(rule.micro)

\* C4: once a boot rule has been installed (in slot MCP41_RULE_SLOT, enabled),
\* the value it replays equals mcp41_last_value.
C4_RuleReplaysLastValue ==
  rule.installed =>
    /\ rule.enabled /\ rule.slot = MCP41_RULE_SLOT
    /\ ReplayedValue = mcp41_last_value

\* ------------------------------ C5 ------------------------------------------

\* C5: mcp41_last_value stays within 0 .. 100 %; a successful MCP41 <v> stores
\* and writes 100 % (code 255) for v > 100, 0 % (code 0) for v < 0, and stores v
\* itself otherwise.
C5_LastValueRange ==
  /\ mcp41_last_value >= Percent(0)
  /\ mcp41_last_value <= Percent(100)
  /\ (IsSet /\ wr.ret) =>
       IF XdrvMailbox.fl > Percent(100) THEN
         /\ mcp41_last_value = Percent(100)
         /\ BusBytes(wr.io) = << MCP41_CMD_WRITE_WIPER, 255 >>
       ELSE IF XdrvMailbox.fl < Percent(0) THEN
         /\ mcp41_last_value = Percent(0)
         /\ BusBytes(wr.io) = << MCP41_CMD_WRITE_WIPER, 0 >>
       ELSE mcp41_last_value = XdrvMailbox.fl

\* C5 witness: MCP41 150 succeeded and stored 100 %.
C5_Witness ==
  /\ IsSet /\ wr.ret
  /\ XdrvMailbox.fl = Percent(150)
  /\ mcp41_last_value = Percent(100)

\* ------------------------------ C6 ------------------------------------------

\* C6: Xdrv100(FUNC_COMMAND) with topic MCP41ADD and a non-empty argument is
\* serviced: it returns true and Cmnd_MCP41ADD has replied.
C6_AddServiced ==
  (InCommand /\ XdrvMailbox.topic = TopicADD /\ XdrvMailbox.data_len > 0) =>
    (handled /\ response.cmd = "MCP41ADD")

\* ------------------------------ C7 ------------------------------------------

\* what a fresh resolution of the configured pins gives with no override
FreshResolution ==
  MCP41_DetectPinsFromConfig([Drv EXCEPT !.cs_gpio = -1, !.cs_override = -1,
                                         !.use_sspi = FALSE, !.spi_inited = FALSE])

\* the resolved pins allow a transport: a chip-select, and for the bit-banged
\* bus its clock and data-out
Usable(d) ==
  /\ d.cs_gpio >= 0
  /\ d.use_sspi => (d.sspi_clk >= 0 /\ d.sspi_mosi >= 0)

Reinitialised ==
  /\ mcp41_spi_inited
  /\ started = CurPins
  /\ StartCount(io, mcp41_sspi_clk) = 1

\* C7 as stated: after MCP41CS g (0..39) the chip-select is g; after MCP41CS -1
\* chip-select and bus mode are those of a fresh resolution and the transport
\* is re-initialised for them.
C7_Original ==
  IsCsChange =>
    IF XdrvMailbox.payload >= 0 THEN mcp41_cs_gpio = XdrvMailbox.payload
    ELSE /\ mcp41_cs_gpio = FreshResolution.cs_gpio
         /\ mcp41_use_sspi = FreshResolution.use_sspi
         /\ Reinitialised

\* C7 amended: as above, but after MCP41CS -1 the transport is re-initialised
\* exactly when the configured pins are usable (a chip-select, and for the
\* bit-banged bus its clock and data-out); otherwise it is left uninitialised
\* and nothing is started.
C7_OverrideAndReturn ==
  IsCsChange =>
    IF XdrvMailbox.payload >= 0 THEN mcp41_cs_gpio = XdrvMailbox.payload
    ELSE /\ mcp41_cs_gpio = FreshResolution.cs_gpio
         /\ mcp41_use_sspi = FreshResolution.use_sspi
         /\ IF Usable(FreshResolution) THEN Reinitialised
            ELSE ~mcp41_spi_inited /\ StartCount(io, mcp41_sspi_clk) = 0

\* C7 witness: MCP41CS -1 gave up an override and the bit-banged bus of the
\* configuration was started again on its own chip-select.
C7_Witness ==
  /\ IsCsChange /\ XdrvMailbox.payload = -1
  /\ mcp41_use_sspi /\ mcp41_cs_gpio = GpioOf(<<"SSPI_CS", 0>>)
  /\ Reinitialised
  /\ \E i \in 1 .. Len(io) : io[i].op = "pinMode" /\ io[i].pin = mcp41_cs_gpio

\* ------------------------------ C8 ------------------------------------------

IsRead ==
  /\ InCommand
  /\ \/ IsMCP41 /\ XdrvMailbox.data_len = 0
     \/ XdrvMailbox.topic = TopicGET
     \/ XdrvMailbox.topic = TopicCS /\ XdrvMailbox.data_len = 0

ReportsLastValue ==
  /\ response.kind \in { "last", "value" }
  /\ response.micro = FormatF(mcp41_last_value)
  /\ mcp41_last_value = last_ok

ReportsChipSelect ==
  /\ response.kind = "cs"
  /\ response.ov = mcp41_cs_override
  /\ response.cs = mcp41_cs_gpio

\* a step that changes no driver variable, nothing on the bus or the GPIOs, and
\* not the boot rule
PureStep ==
  /\ drv_vars' = drv_vars
  /\ rule' = rule
  /\ started' = started
  /\ last_ok' = last_ok
  /\ io' = <<>>
  /\ ~wr'.called

\* C8 as stated: MCP41 without argument, MCP41GET and MCP41CS without argument
\* report mcp41_last_value and change nothing.
C8_Original == [][ IsRead' => (PureStep /\ ReportsLastValue') ]_vars

\* C8 amended: MCP41 without argument and MCP41GET report mcp41_last_value (the
\* value of the most recent successful set, 0 if none); MCP41CS without
\* argument reports the override and the effective chip-select instead; all
\* three change no driver variable, nothing on the bus or the GPIOs, and not
\* the boot rule.
C8_ReadsArePure ==
  [][ IsRead' =>
        /\ PureStep
        /\ IF XdrvMailbox'.topic = TopicCS THEN ReportsChipSelect'
           ELSE ReportsLastValue' ]_vars

\* C8 witness: MCP41GET reported 100 % although no chip-select is resolved any
\* more (the set succeeded under an override that was given up since).
C8_Witness ==
  /\ InCommand /\ XdrvMailbox.topic = TopicGET
  /\ mcp41_cs_gpio = -1
  /\ mcp41_last_value = Percent(100)
  /\ response.kind = "value" /\ response.micro = 100 * FDecimalsScale

\* ------------------------------ C9 ------------------------------------------

ConvOk(c) ==
  /\ c.out \in 0 .. 255
  /\ c.in < Percent(0) => c.out = 0
  /\ c.in > Percent(100) => c.out = 255
  /\ (c.in >= Percent(0) /\ c.in <= Percent(100)) =>
       c.out = ((c.in \div Scale) * 255) \div 100

\* C9 (under ConvSpec): for an integer percentage p in 0..100 the result is
\* floor(p * 255 / 100), within 0..255, 0 for 0 and 255 for 100; below 0 it is 0
\* and above 100 it is 255; and the result never decreases when p grows.
C9_ConvertToValue ==
  /\ ConvOk(conv) /\ ConvOk(convPrev)
  /\ conv.in = Percent(0) => conv.out = 0
  /\ conv.in = Percent(100) => conv.out = 255
  /\ convPrev.in <= conv.in => convPrev.out <= conv.out

\* C9 witness: 33 % was converted to 84 and then 120 % to 255.
C9_Witness ==
  /\ phase = "convert"
  /\ convPrev.in = Percent(33) /\ convPrev.out = 84
  /\ conv.in = Percent(100 + ConvMargin) /\ conv.out = 255

\* ------------------------------ C10 -----------------------------------------

IsSetOrAdd ==
  /\ InCommand /\ XdrvMailbox.data_len > 0
  /\ IsMCP41 \/ XdrvMailbox.topic = TopicADD

ChipReachable == Usable(Drv)

FailsWithoutEffect ==
  /\ io' = <<>>
  /\ mcp41_last_value' = mcp41_last_value
  /\ rule' = rule
  /\ ~mcp41_spi_inited'
  /\ response'.kind \in { "error", "CS missing" }

\* C10: when no chip-select is resolved, or the bit-banged bus lacks its clock
\* or data-out pin, MCP41 <value> and MCP41ADD <delta> transfer nothing, toggle
\* no chip-select, keep mcp41_last_value and the boot rule, leave
\* mcp41_spi_inited false and reply with an error.
C10_FailedSetNoEffect ==
  [][ (IsSetOrAdd' /\ ~ChipReachable') => FailsWithoutEffect ]_vars

\* the same for MCP41 <value> alone
C10_FailedMCP41NoEffect ==
  [][ (IsSet' /\ ~ChipReachable') => FailsWithoutEffect ]_vars

\* ------------------------------ C11 -----------------------------------------

\* MCP41CS with an argument that is not a pin number of -1..39
IsCsInvalid ==
  /\ InCommand /\ XdrvMailbox.topic = TopicCS /\ XdrvMailbox.data_len > 0
  /\ (XdrvMailbox.payload < -1 \/ XdrvMailbox.payload > 39)

\* the step rejects the argument: reply 'invalid', and the override, the
\* effective chip-select, the bus mode, the started flag and every pin variable
\* keep their values; no hardware call is made
RejectedStep ==
  /\ response'.cmd = "MCP41CS" /\ response'.kind = "invalid"
  /\ mcp41_cs_override' = mcp41_cs_override
  /\ mcp41_cs_gpio' = mcp41_cs_gpio
  /\ mcp41_use_sspi' = mcp41_use_sspi
  /\ mcp41_spi_inited' = mcp41_spi_inited
  /\ << mcp41_sspi_clk, mcp41_sspi_mosi, mcp41_sspi_miso, mcp41_spi_clk, mcp41_spi_mosi,
        mcp41_spi_miso, mcp41_spi_bus >>' =
     << mcp41_sspi_clk, mcp41_sspi_mosi, mcp41_sspi_miso, mcp41_spi_clk, mcp41_spi_mosi,
        mcp41_spi_miso, mcp41_spi_bus >>
  /\ started' = started
  /\ io' = <<>>

\* the step accepts the argument: the override is stored, the chip-select is
\* resolved again with it, the transport is started afresh (exactly once, also
\* when it was started before on the same pins) whenever the resolved pins are
\* usable and is left unstarted otherwise, and the reply shows the new override
\* and the new effective chip-select
AcceptedStep ==
  /\ mcp41_cs_override' = XdrvMailbox'.payload
  /\ mcp41_cs_gpio' = ExpectedCs'
  /\ mcp41_spi_inited' = Usable(Drv)'
  /\ StartCount(io', mcp41_sspi_clk') = (IF Usable(Drv)' THEN 1 ELSE 0)
  /\ mcp41_spi_inited' => started' = CurPins'
  /\ response'.cmd = "MCP41CS" /\ ReportsChipSelect'

\* C11: MCP41CS with an argument outside -1..39 replies 'invalid' and leaves
\* mcp41_cs_override, mcp41_cs_gpio, mcp41_use_sspi, mcp41_spi_inited and all
\* pin variables unchanged; with an argument inside -1..39 it stores the
\* override, clears mcp41_spi_inited and runs resolution and initialisation
\* again before it replies.
C11_CsArgumentChecked ==
  [][ /\ IsCsInvalid' => RejectedStep
      /\ IsCsChange' => AcceptedStep ]_vars

\* C11 witness: MCP41CS 40 was rejected while the override 4 was in force and
\* the transport started; both are still as they were.
C11_Witness ==
  /\ IsCsInvalid /\ XdrvMailbox.payload = 40
  /\ response.kind = "invalid"
  /\ mcp41_cs_override = 4 /\ mcp41_cs_gpio = 4
  /\ mcp41_spi_inited /\ started = CurPins

\* ------------------------------ C12 -----------------------------------------

\* C12: when no chip-select pin is resolved, the reply to MCP41 <value> is the
\* message 'CS missing (set SPI/SSPI CS or use MCP41CS)'.
C12_CsMissingReply ==
  (IsSet /\ mcp41_cs_gpio < 0) => (response.cmd = "MCP41" /\ response.kind = "CS missing")

\* what the handler leaves instead: MCP41_TrySetValue writes the message and
\* returns false, and Cmnd_MCP41 then replaces it by 'error'
C12_ReplyIsError ==
  (IsSet /\ mcp41_cs_gpio < 0) => (response.cmd = "MCP41" /\ response.kind = "error")

\* ------------------------------ C13 -----------------------------------------

\* the level the calls of seq leave on pin, "unknown" when none drives it
LevelAfter(seq, pin) ==
  LET idx == { i \in 1 .. Len(seq) : seq[i].op = "digitalWrite" /\ seq[i].pin = pin }
  IN IF idx = {} THEN "unknown"
     ELSE seq[CHOOSE i \in idx : \A j \in idx : j <= i].val

\* the positions of seq where the clock goes from LOW to HIGH, the clock being
\* LOW before seq
RisingEdges(seq, clk) ==
  { i \in 1 .. Len(seq) :
      /\ seq[i].op = "digitalWrite" /\ seq[i].pin = clk /\ seq[i].val = "HIGH"
      /\ LevelAfter(SubSeq(seq, 1, i - 1), clk) \in { "unknown", "LOW" } }

\* the k-th rising edge of seq, k = 1 for the first
NthEdge(seq, clk, k) ==
  CHOOSE i \in RisingEdges(seq, clk) :
    Cardinality({ j \in RisingEdges(seq, clk) : j <= i }) = k

\* SSPI_TransferByte may be called next: the guard of TransferByte
CanTransfer == phase = "FUNC_ACTIVE" /\ mcp41_spi_inited /\ mcp41_use_sspi

\* the last handler was SSPI_TransferByte(sspi_data)
Transferred == phase = "FUNC_ACTIVE" /\ sspi_data \in 0 .. 255

\* the calls of the step are one byte in mode 0, MSB first
ModeZeroMsbFirst(seq, clk, mosi, data) ==
  /\ \A i \in 1 .. Len(seq) : seq[i].op = "digitalWrite" /\ seq[i].pin \in { clk, mosi }
  /\ Cardinality(RisingEdges(seq, clk)) = 8
  /\ \A k \in 1 .. 8 :
       /\ LevelAfter(SubSeq(seq, 1, NthEdge(seq, clk, k) - 1), mosi) =
            (IF (data \div (2 ^ (8 - k))) % 2 = 1 THEN "HIGH" ELSE "LOW")
       /\ \E i \in 1 .. (NthEdge(seq, clk, k) - 1) :
            /\ seq[i].pin = mosi
            /\ k > 1 => i > NthEdge(seq, clk, k - 1)
  /\ LevelAfter(seq, clk) = "LOW"
  /\ BitsValue(SampleBits(seq, 1, clk, mosi, 0, 0)) = data

\* C13 (under ByteSpec): SSPI_TransferByte sends the byte in SPI mode 0, most
\* significant bit first: the clock is LOW whenever the call can be made (left
\* so by the bus start or by the previous byte); the call makes exactly 8 clock
\* pulses; before the k-th rising edge the data-out pin has been set to bit 8-k
\* of the byte;
\* the clock is LOW after the last pulse; and the data-out levels sampled at
\* the rising edges, read MSB first, give the byte, for every byte 0..255.
C13_TransferByteMsbFirst ==
  /\ CanTransfer => LevelAfter(io, mcp41_sspi_clk) = "LOW"
  /\ Transferred => ModeZeroMsbFirst(io, mcp41_sspi_clk, mcp41_sspi_mosi, sspi_data)

\* C13 witness: the byte 0xB2 (1011 0010) has been sent, its eight sampled
\* levels read 178, and the clock rests LOW.
C13_Witness ==
  /\ phase = "FUNC_ACTIVE" /\ sspi_data = 178
  /\ Len(SampleBits(io, 1, mcp41_sspi_clk, mcp41_sspi_mosi, 0, 0)) = 8
  /\ BitsValue(SampleBits(io, 1, mcp41_sspi_clk, mcp41_sspi_mosi, 0, 0)) = 178
  /\ LevelAfter(io, mcp41_sspi_clk) = "LOW"

=============================================================================
